---- MODULE Spec2Model ----
(***************************************************************************)
(* State-machine model of GuidedTutorials/LBM/MRT/main_driver.cpp: the     *)
(* fluctuating lattice Boltzmann driver (setup, initial plot, time loop    *)
(* with ghost exchange, fused stream+collide pass, generation copy,        *)
(* structure-factor accumulation and periodic output).                     *)
(*                                                                         *)
(* Reals are modelled in fixed point: a velocity of 1 lattice unit is      *)
(* UUnit, a density of 1 is RhoUnit.  A non-finite floating-point value    *)
(* (inf or NaN) is the value NaN, which every arithmetic step propagates.  *)
(***************************************************************************)
EXTENDS Integers, Sequences, FiniteSets, TLC

(* ------------------------------ bounds -------------------------------- *)
MaxNx == 3
MaxSteps == 3
MaxPlotInt == 2

(* ------------------------ fixed-point scaling -------------------------- *)
UUnit == 16
RhoUnit == 72 * UUnit * UUnit
TauUnit == 4
NaN == -1073741824

(* --------------------- lbm.H: lattice stencil -------------------------- *)
ncomp == 19
nghost == 1

Dirs == 1..ncomp

c == << <<0,0,0>>,
        <<1,0,0>>, <<-1,0,0>>, <<0,1,0>>, <<0,-1,0>>, <<0,0,1>>, <<0,0,-1>>,
        <<1,1,0>>, <<-1,-1,0>>, <<1,-1,0>>, <<-1,1,0>>,
        <<1,0,1>>, <<-1,0,-1>>, <<1,0,-1>>, <<-1,0,1>>,
        <<0,1,1>>, <<0,-1,-1>>, <<0,1,-1>>, <<0,-1,1>> >>

\* lattice weights times 36
w36 == [i \in Dirs |-> IF i = 1 THEN 12 ELSE IF i <= 7 THEN 2 ELSE 1]

(* --------------------------- Real arithmetic --------------------------- *)
IsNaN(a) == a = NaN

\* The range of the fixed-point Reals: a density, velocity or population
\* that grows past it has blown up and counts as non-finite from then on.
RhoMax == 4 * RhoUnit
UMax == 4 * UUnit
PopMax == 256 * RhoUnit

InRange(a, max) == ~IsNaN(a) /\ a <= max /\ 0 - max <= a

RECURSIVE SumTo(_, _)
SumTo(g, n) == IF n = 0 THEN 0 ELSE g[n] + SumTo(g, n - 1)

\* a component vector as a tuple of its values
Vec(g) == g \o << >>

\* floating-point sum of a component vector: one non-finite term poisons it
SumComp(g0) == LET g == Vec(g0) IN IF \E i \in Dirs : IsNaN(g[i]) THEN NaN ELSE SumTo(g, ncomp)

\* a / b in floating point: finite except for a zero divisor
RealDiv(a, b) == IF IsNaN(a) \/ IsNaN(b) \/ b = 0 THEN NaN
                 ELSE IF b > 0 THEN a \div b ELSE (0 - a) \div (0 - b)

\* std::sin(2.*M_PI*x/nx), scaled by amp (Bhaskara's rational approximation,
\* exact at the multiples of pi/2); x/nx is non-finite for nx = 0
SinWave(amp, x, n) ==
  IF n = 0 THEN NaN
  ELSE LET m  == x % n
           h  == IF 2 * m <= n THEN 2 * m ELSE 2 * m - n
           p  == h * (n - h)
           s  == (amp * 16 * p) \div (5 * n * n - 4 * p)
       IN  IF 2 * m <= n THEN s ELSE 0 - s

(* --------------------- lbm.H: equilibrium, moments --------------------- *)
Dot(i, u) == c[i][1] * u[1] + c[i][2] * u[2] + c[i][3] * u[3]

NaNVec == [i \in Dirs |-> NaN]

\* fequilibrium(rho, u): second-order expansion, weights w36/36
fequilibrium(rho, u) ==
  IF IsNaN(rho) \/ IsNaN(u[1]) \/ IsNaN(u[2]) \/ IsNaN(u[3]) THEN NaNVec
  ELSE LET usq == u[1] * u[1] + u[2] * u[2] + u[3] * u[3]
       IN [i \in Dirs |->
             LET cu == Dot(i, u)
             IN (((w36[i] * rho) \div 72)
                   * (2 * UUnit * UUnit + 6 * cu * UUnit + 9 * cu * cu - 3 * usq))
                  \div (UUnit * UUnit)]

\* zeroth moment of a population vector
Density(f) == SumComp(f)

\* first moment, component k
Momentum(f, k) == SumComp([i \in Dirs |-> IF IsNaN(f[i]) THEN NaN ELSE f[i] * c[i][k]])

\* velocity = momentum / density, in velocity units
Velocity(f, k) ==
  LET j == Momentum(f, k)
  IN  IF IsNaN(j) THEN NaN ELSE RealDiv(j * UUnit, Density(f))

(* ----------------------- boxes and MultiFabs ---------------------------- *)
Cube(S) == {<<x, y, z>> : x \in S, y \in S, z \in S}

\* Box domain(dom_lo, dom_hi): the valid cells
ValidBox(n) == Cube(0..(n - 1))

\* the valid box grown by the ghost layer
GrownBox(n) == Cube((0 - nghost)..(n - 1 + nghost))

\* periodic image of a cell inside the valid box
Wrap(cell, n) == <<cell[1] % n, cell[2] % n, cell[3] % n>>

\* memory of a freshly constructed MultiFab: not initialised by the
\* constructor, any bit pattern (a finite one, a non-finite one)
Garbage == {0, NaN}

VARIABLES nx, nsteps, plot_int, tau, temperature, A,
          pc, step, time, fold, fnew, hydrovars, structFactMF,
          nsamples, plt, pltData, pltSF, phases, pending, writes, seed

config == <<nx, nsteps, plot_int, tau, temperature, A>>
vars == <<nx, nsteps, plot_int, tau, temperature, A,
          pc, step, time, fold, fnew, hydrovars, structFactMF,
          nsamples, plt, pltData, pltSF, phases, pending, writes, seed>>

(* ------------------------------ inputs --------------------------------- *)
\* relaxation times in quarters: 0.25 (below the stable range) and 1.0
TauValues == {1, TauUnit}

\* temperatures (noise amplitude in population units): negative, zero, hot
TemperatureValues == {-1, 0, RhoUnit \div 3}

\* shear-wave amplitudes in velocity units
Amplitudes == {UUnit \div 4}

\* states of the random engine at the start of a pass
NSeeds == 2
Seeds == 0..(NSeeds - 1)

(* --------------------- lbm.H: collision and streaming ------------------ *)
\* a stress-like non-conserved mode: zeroth and first moments vanish
NoiseMode == [i \in Dirs |-> IF i = 1 THEN -2 ELSE IF i <= 3 THEN 1 ELSE 0]

\* the draw of the cell's random stream in this pass
Draw(s, cell) == ((cell[1] + cell[2] + cell[3] + s) % 3) - 1

\* collide: relax towards equilibrium at rate 1/tau, add thermal noise
collide(f, T, r) ==
  LET rho == Density(f)
      u   == <<Velocity(f, 1), Velocity(f, 2), Velocity(f, 3)>>
      feq == Vec(fequilibrium(rho, u))
      out == Vec([i \in Dirs |->
                    feq[i] + ((tau - TauUnit) * (f[i] - feq[i])) \div tau
                           + (IF T > 0 THEN r * T * NoiseMode[i] ELSE 0)])
  IN  IF ~InRange(rho, RhoMax) \/ \E k \in 1..3 : ~InRange(u[k], UMax)
        THEN NaNVec
      ELSE IF \E i \in Dirs : ~InRange(out[i], PopMax) THEN NaNVec
      ELSE out

\* stream_collide(x, y, z, fOld, fNew, engine): pull the populations that
\* stream into the cell from fOld, collide, return what is stored in fNew
stream_collide(cell, fOld, s) ==
  collide(Vec([i \in Dirs |->
             fOld[<<cell[1] - c[i][1], cell[2] - c[i][2], cell[3] - c[i][3]>>][i]]),
          temperature, Draw(s, cell))

(* --------------------- main_driver: helper steps ----------------------- *)
\* the initial population field, ghost cells included (lines 92-97)
InitialField(n, amp) ==
  [cell \in GrownBox(n) |->
     fequilibrium(RhoUnit, <<0, SinWave(amp, cell[1], n), 0>>)]

\* FillBoundary left out: the ghost cells keep what they held
FillBoundary_skipped(f, n) == f

\* fold.FillBoundary(geom.periodicity()): every ghost cell takes the
\* populations of its periodic image
FillBoundary(f, n) ==
  [cell \in DOMAIN f |->
     IF cell \in ValidBox(n) \/ n <= 0 THEN f[cell] ELSE f[Wrap(cell, n)]]

\* the kernel given the array it reads as the array it writes
StreamDst_inplace == "fold"

\* the buffer handed to stream_collide as fNew (line 125)
StreamDst == "fnew"

\* MultiFab::Copy(fold, fnew, 0, 0, ncomp, 0): valid cells only
CopyValid(dst, src, n) ==
  [cell \in DOMAIN dst |-> IF cell \in ValidBox(n) THEN src[cell] ELSE dst[cell]]

\* the output test without the cadence
IsPlotStep_every(s) == plot_int > 0

\* the output test of line 139
IsPlotStep(s) == plot_int > 0 /\ s % plot_int = 0

\* hydrodynamic moments of the initial plot (lines 102-110)
InitialMoments(f) ==
  [cell \in DOMAIN f |-> [k \in 1..3 |-> Momentum(f[cell], k)]]

\* hydrodynamic moments of a loop plot (lines 140-145): u(x,y,z) is
\* component 0 of hydrovars, summed with c[i][1]
LoopMoments(h, f) ==
  [cell \in DOMAIN h |-> [h[cell] EXCEPT ![1] = Momentum(f[cell], 2)]]

\* the part of a MultiFab a plot file holds
ValidPart(h, n) == [cell \in ValidBox(n) |-> h[cell]]

\* StructFact::FortStructure: one more sample in the running average
FortStructure(count) == count + 1

\* StructFact::WritePlotFile: the averaged record; the accumulator is kept
WritePlotFile(s, t, count) == [step |-> s, time |-> t, nsamples |-> count]

(* ----------------------------- Init ------------------------------------ *)
Init ==
  /\ nx \in 0..MaxNx
  /\ nsteps \in 0..MaxSteps
  /\ plot_int \in (-1)..MaxPlotInt
  /\ tau \in TauValues
  /\ temperature \in TemperatureValues
  /\ A \in Amplitudes
  /\ pc = "setup"
  /\ step = 0
  /\ time = 0
  /\ fold = << >>
  /\ fnew = << >>
  /\ hydrovars = << >>
  /\ structFactMF = << >>
  /\ nsamples = 0
  /\ plt = {}
  /\ pltData = << >>
  /\ pltSF = {}
  /\ phases = << >>
  /\ pending = {}
  /\ writes = {}
  /\ seed = 0

(* ---------------------------- actions ---------------------------------- *)
\* lines 35-84: boxes, MultiFabs, structFactMF.setVal(0.), StructFact
Setup ==
  /\ pc = "setup"
  /\ \E g \in Garbage :
       /\ fold' = [cell \in GrownBox(nx) |-> [i \in Dirs |-> g]]
       /\ fnew' = [cell \in GrownBox(nx) |-> [i \in Dirs |-> g]]
       /\ hydrovars' = [cell \in GrownBox(nx) |-> [k \in 1..3 |-> g]]
  /\ structFactMF' = [cell \in ValidBox(nx) |-> [k \in 1..3 |-> 0]]
  /\ nsamples' = 0
  /\ pc' = "initialize"
  /\ UNCHANGED <<config, step, time, plt, pltData, pltSF, phases, pending,
                 writes, seed>>

\* an empty domain box: the library may refuse to build on it
LibraryAbort ==
  /\ pc = "setup"
  /\ nx <= 0
  /\ pc' = "aborted"
  /\ UNCHANGED <<config, step, time, fold, fnew, hydrovars, structFactMF,
                 nsamples, plt, pltData, pltSF, phases, pending, writes, seed>>

\* lines 90-97
Initialize ==
  /\ pc = "initialize"
  /\ time' = 0
  /\ fold' = InitialField(nx, A)
  /\ pc' = IF plot_int > 0 THEN "init_moments" ELSE "loop"
  /\ UNCHANGED <<config, step, fnew, hydrovars, structFactMF, nsamples, plt,
                 pltData, pltSF, phases, pending, writes, seed>>

\* lines 101-110
InitMoments ==
  /\ pc = "init_moments"
  /\ step' = 0
  /\ hydrovars' = InitialMoments(fold)
  /\ pc' = "init_write"
  /\ UNCHANGED <<config, time, fold, fnew, structFactMF, nsamples, plt,
                 pltData, pltSF, phases, pending, writes, seed>>

\* lines 111-112
InitWritePlotfile ==
  /\ pc = "init_write"
  /\ plt' = plt \cup {[step |-> step, time |-> time]}
  /\ pltData' = ValidPart(hydrovars, nx)
  /\ pc' = "init_accumulate"
  /\ UNCHANGED <<config, step, time, fold, fnew, hydrovars, structFactMF,
                 nsamples, pltSF, phases, pending, writes, seed>>

\* the initial plot without its FortStructure call
InitAccumulate_skipped ==
  /\ pc = "init_accumulate"
  /\ pc' = "init_flush"
  /\ UNCHANGED <<config, step, time, fold, fnew, hydrovars, structFactMF,
                 nsamples, plt, pltData, pltSF, phases, pending, writes, seed>>

\* line 113
InitAccumulate ==
  /\ pc = "init_accumulate"
  /\ nsamples' = FortStructure(nsamples)
  /\ pc' = "init_flush"
  /\ UNCHANGED <<config, step, time, fold, fnew, hydrovars, structFactMF,
                 plt, pltData, pltSF, phases, pending, writes, seed>>

\* line 114
InitFlush ==
  /\ pc = "init_flush"
  /\ pltSF' = pltSF \cup {WritePlotFile(0, 0, nsamples)}
  /\ pc' = "loop"
  /\ UNCHANGED <<config, step, time, fold, fnew, hydrovars, structFactMF,
                 nsamples, plt, pltData, phases, pending, writes, seed>>

\* line 118: the loop test and increment
LoopHead ==
  /\ pc = "loop"
  /\ IF step + 1 <= nsteps
       THEN /\ step' = step + 1
            /\ pc' = "fill_boundary"
            /\ phases' = << >>
       ELSE /\ pc' = "done"
            /\ UNCHANGED <<step, phases>>
  /\ UNCHANGED <<config, time, fold, fnew, hydrovars, structFactMF, nsamples,
                 plt, pltData, pltSF, pending, writes, seed>>

\* line 120
GhostExchange ==
  /\ pc = "fill_boundary"
  /\ fold' = FillBoundary(fold, nx)
  /\ pending' = ValidBox(nx)
  /\ writes' = {}
  /\ seed' \in (IF temperature > 0 THEN Seeds ELSE {0})
  /\ phases' = Append(phases, "exchange")
  /\ pc' = "stream_collide"
  /\ UNCHANGED <<config, step, time, fnew, hydrovars, structFactMF, nsamples,
                 plt, pltData, pltSF>>

\* lines 122-129, the whole ParallelForRNG
StreamCollidePass ==
  /\ pc = "stream_collide"
  /\ pending = ValidBox(nx)
  /\ LET out == [cell \in ValidBox(nx) |-> stream_collide(cell, fold, seed)]
     IN  /\ fnew' = IF StreamDst = "fnew" THEN CopyValid(fnew, out, nx) ELSE fnew
         /\ fold' = IF StreamDst = "fold" THEN CopyValid(fold, out, nx) ELSE fold
  /\ writes' = {StreamDst}
  /\ pending' = {}
  /\ phases' = Append(phases, "stream_collide")
  /\ pc' = "copy"
  /\ UNCHANGED <<config, step, time, hydrovars, structFactMF, nsamples, plt,
                 pltData, pltSF, seed>>

\* line 127, one invocation of the kernel
StreamCollideCell ==
  /\ pc = "stream_collide"
  /\ \E cell \in pending :
       /\ LET out == stream_collide(cell, fold, seed)
          IN  /\ fnew' = IF StreamDst = "fnew"
                           THEN [fnew EXCEPT ![cell] = out] ELSE fnew
              /\ fold' = IF StreamDst = "fold"
                           THEN [fold EXCEPT ![cell] = out] ELSE fold
       /\ pending' = pending \ {cell}
  /\ writes' = writes \cup {StreamDst}
  /\ UNCHANGED <<config, pc, step, time, hydrovars, structFactMF, nsamples,
                 plt, pltData, pltSF, phases, seed>>

\* line 129: every invocation has returned
PassEnd ==
  /\ pc = "stream_collide"
  /\ pending = {}
  /\ phases' = Append(phases, "stream_collide")
  /\ pc' = "copy"
  /\ UNCHANGED <<config, step, time, fold, fnew, hydrovars, structFactMF,
                 nsamples, plt, pltData, pltSF, pending, writes, seed>>

\* line 131
GenerationCopy ==
  /\ pc = "copy"
  /\ fold' = CopyValid(fold, fnew, nx)
  /\ phases' = Append(phases, "swap")
  /\ pc' = "accumulate"
  /\ UNCHANGED <<config, step, time, fnew, hydrovars, structFactMF, nsamples,
                 plt, pltData, pltSF, pending, writes, seed>>

\* FortStructure moved inside the output block
Accumulate_onPlotSteps ==
  /\ pc = "accumulate"
  /\ nsamples' = IF IsPlotStep(step) THEN FortStructure(nsamples) ELSE nsamples
  /\ phases' = Append(phases, "accumulate")
  /\ pc' = "output_test"
  /\ UNCHANGED <<config, step, time, fold, fnew, hydrovars, structFactMF,
                 plt, pltData, pltSF, pending, writes, seed>>

\* line 133
Accumulate ==
  /\ pc = "accumulate"
  /\ nsamples' = FortStructure(nsamples)
  /\ phases' = Append(phases, "accumulate")
  /\ pc' = "output_test"
  /\ UNCHANGED <<config, step, time, fold, fnew, hydrovars, structFactMF,
                 plt, pltData, pltSF, pending, writes, seed>>

\* lines 135-139
OutputTest ==
  /\ pc = "output_test"
  /\ time' = step
  /\ pc' = IF IsPlotStep(step) THEN "moments" ELSE "loop"
  /\ UNCHANGED <<config, step, fold, fnew, hydrovars, structFactMF, nsamples,
                 plt, pltData, pltSF, phases, pending, writes, seed>>

\* lines 140-145
Moments ==
  /\ pc = "moments"
  /\ hydrovars' = LoopMoments(hydrovars, fold)
  /\ phases' = Append(phases, "moments")
  /\ pc' = "write"
  /\ UNCHANGED <<config, step, time, fold, fnew, structFactMF, nsamples, plt,
                 pltData, pltSF, pending, writes, seed>>

\* lines 146-147
WritePlotfile ==
  /\ pc = "write"
  /\ plt' = plt \cup {[step |-> step, time |-> time]}
  /\ pltData' = ValidPart(hydrovars, nx)
  /\ pc' = "flush"
  /\ UNCHANGED <<config, step, time, fold, fnew, hydrovars, structFactMF,
                 nsamples, pltSF, phases, pending, writes, seed>>

\* line 148
Flush ==
  /\ pc = "flush"
  /\ pltSF' = pltSF \cup {WritePlotFile(step, time, nsamples)}
  /\ pc' = "loop"
  /\ UNCHANGED <<config, step, time, fold, fnew, hydrovars, structFactMF,
                 nsamples, plt, pltData, phases, pending, writes, seed>>

Next ==
  \/ Setup
  \/ LibraryAbort
  \/ Initialize
  \/ InitMoments
  \/ InitWritePlotfile
  \/ InitAccumulate
  \/ InitFlush
  \/ LoopHead
  \/ GhostExchange
  \/ StreamCollidePass
  \/ GenerationCopy
  \/ Accumulate
  \/ OutputTest
  \/ Moments
  \/ WritePlotfile
  \/ Flush

Spec == Init /\ [][Next]_vars

(* ------------- the pass as concurrent kernel invocations --------------- *)
\* Grids and runs of the interleaved specification: every subset of the
\* valid cells is a state of a pass, 2^(nx^3) of them, which 27 cells put
\* out of reach.
ParGrids == {1, 2}
ParSteps == 2

InitPar ==
  /\ Init
  /\ nx \in ParGrids
  /\ nsteps \in 1..ParSteps
  /\ plot_int \in {0, 1}
  /\ tau = TauUnit
  /\ temperature >= 0

NextPar ==
  \/ Setup
  \/ Initialize
  \/ InitMoments
  \/ InitWritePlotfile
  \/ InitAccumulate
  \/ InitFlush
  \/ LoopHead
  \/ GhostExchange
  \/ StreamCollideCell
  \/ PassEnd
  \/ GenerationCopy
  \/ Accumulate
  \/ OutputTest
  \/ Moments
  \/ WritePlotfile
  \/ Flush

SpecPar == InitPar /\ [][NextPar]_vars

(* ============================= claims ================================== *)
StepsOf(records) == {r.step : r \in records}

\* the steps up to s at which the cadence asks for output
OutputSteps(s) ==
  IF plot_int > 0 THEN {0} \cup {t \in 1..s : t % plot_int = 0} ELSE {}

\* C1: with plot_int > 0 a velocity snapshot and a structure-factor snapshot
\* are written at step 0 and at exactly the steps s in 1..nsteps with
\* s mod plot_int = 0, each tagged with step s and time s; with
\* plot_int = 0 nothing is written.
C1_OutputCadence ==
  /\ \A r \in plt : r.time = r.step
  /\ \A r \in pltSF : r.time = r.step
  /\ pc \in {"loop", "done"} =>
       /\ StepsOf(plt) = OutputSteps(step)
       /\ StepsOf(pltSF) = OutputSteps(step)
  /\ pc = "done" /\ nsteps >= 0 => step = nsteps

C1_Witness ==
  /\ pc = "done"
  /\ plot_int = 2
  /\ nsteps = 3
  /\ StepsOf(plt) = {0, 2}
  /\ StepsOf(pltSF) = {0, 2}
  /\ [step |-> 2, time |-> 2] \in plt

\* the configuration errors of the error taxonomy
ConfigError == nx <= 0 \/ 2 * tau < TauUnit \/ temperature < 0

\* C2: every FortStructure call receives the velocity field of that step:
\* for every cell the field passed equals the velocity extracted from fold
\* (stated for the runs of a valid configuration).
C2_AccumulateGetsVelocity ==
  ~ConfigError /\ pc \in {"init_accumulate", "accumulate"} =>
    \A cell \in ValidBox(nx) : \A k \in 1..3 :
      structFactMF[cell][k] = Velocity(fold[cell], k)

\* C3: a non-positive grid size, a relaxation time below 0.5 or a negative
\* temperature aborts the run before the population field is initialized
\* and before any time step.
C3_ConfigRejected ==
  ConfigError => pc \in {"setup", "initialize", "aborted"}

\* C4: within every time step the phases are, in this order, ghost
\* exchange, collision+streaming, generation swap, moment extraction (on
\* output steps) and then the structure-factor accumulator update (stated
\* for the runs of a valid configuration).
C4_PhaseOrder ==
  ~ConfigError /\ pc = "loop" /\ step >= 1 =>
    phases = IF IsPlotStep(step)
               THEN <<"exchange", "stream_collide", "swap", "moments", "accumulate">>
               ELSE <<"exchange", "stream_collide", "swap", "accumulate">>

\* C5: during a collision+streaming pass, under any interleaving of the
\* kernel invocations, fold is not written and every write goes to fnew;
\* the valid cells of fold change only at the generation copy, where they
\* take the values of fnew.
C5_DoubleBuffered ==
  [][ /\ pc = "stream_collide" => fold' = fold /\ writes' \subseteq {"fnew"}
      /\ (pc \notin {"setup", "initialize"}
            /\ ValidPart(fold', nx) # ValidPart(fold, nx))
           => pc = "copy" /\ pending = {}
                /\ ValidPart(fold', nx) = ValidPart(fnew, nx) ]_vars

C5_Witness ==
  /\ pc = "stream_collide"
  /\ nx = 2
  /\ Cardinality(pending) = 3
  /\ writes = {"fnew"}
  /\ \E cell \in ValidBox(nx) \ pending : fnew[cell] # fold[cell]

\* C6: at the start of every collision+streaming pass every ghost cell of
\* fold holds, in every direction, the value of its periodic image, and
\* the valid cells hold the previous generation's field.
C6_GhostsPeriodic ==
  pc = "stream_collide" /\ pending = ValidBox(nx) /\ nx >= 1 =>
    /\ \A cell \in DOMAIN fold : fold[cell] = fold[Wrap(cell, nx)]
    /\ step >= 2 => ValidPart(fold, nx) = ValidPart(fnew, nx)
    /\ step = 1 => ValidPart(fold, nx) = ValidPart(InitialField(nx, A), nx)

C6_Witness ==
  /\ pc = "stream_collide"
  /\ step = 2
  /\ nx = 3
  /\ \E cell \in DOMAIN fold \ ValidBox(nx) :
       fold[cell] # InitialField(nx, A)[cell]

\* a written component w is the velocity component k of the populations f:
\* w = (sum_i f_i c_i[k]) / (sum_i f_i), cross-multiplied in population units
IsVelocity(w, f, k) ==
  IF IsNaN(w) \/ IsNaN(Density(f)) \/ IsNaN(Momentum(f, k))
    THEN IsNaN(w) /\ IsNaN(Velocity(f, k))
    ELSE w * Density(f) = Momentum(f, k) * RhoUnit

\* C7: at every output step each component k of the written velocity
\* snapshot equals (sum_i f_i c_i[k]) / density of that step's populations
\* (stated for the runs of a valid configuration).
C7_VelocityRecomputed ==
  ~ConfigError /\ pc \in {"init_accumulate", "flush"} =>
    \A cell \in ValidBox(nx) : \A k \in 1..3 :
      IsVelocity(pltData[cell][k], fold[cell], k)

\* C8: every structure-factor flush happens after at least one accumulate:
\* the sample count is greater than 0 at every flush.
C8_FlushAfterAccumulate ==
  /\ pc \in {"init_flush", "flush"} => nsamples > 0
  /\ \A r \in pltSF : r.nsamples > 0

C8_Witness ==
  /\ pc = "loop"
  /\ step = 0
  /\ [step |-> 0, time |-> 0, nsamples |-> 1] \in pltSF

\* a cell whose density is zero or negative, or no longer finite
Degenerate(f) == IsNaN(Density(f)) \/ Density(f) <= 0

\* C9: once some cell's density is zero or negative in a time step, no
\* further time step is executed (stated for the runs of a valid
\* configuration).
C9_DegeneracyHalts ==
  [][ (/\ ~ConfigError
       /\ pc = "loop"
       /\ step >= 1
       /\ \E cell \in ValidBox(nx) : Degenerate(fold[cell]))
      => step' = step ]_vars

\* the step-0 sample is taken only with plot_int > 0
InitialSamples == IF plot_int > 0 THEN 1 ELSE 0

\* C10: the sample count grows by one per time step and is never reset by
\* a flush: after step s it is s+1 with plot_int > 0 and s otherwise.
C10_SampleCount ==
  /\ pc \in {"loop", "done", "output_test", "moments", "write", "flush"} =>
       nsamples = step + InitialSamples
  /\ pc \in {"fill_boundary", "stream_collide", "copy", "accumulate"} =>
       nsamples = step - 1 + InitialSamples
  /\ \A r \in pltSF : r.nsamples = r.step + 1

C10_Witness ==
  /\ pc = "loop"
  /\ plot_int = 1
  /\ step = 2
  /\ nsamples = 3
  /\ StepsOf(pltSF) = {0, 1, 2}

====
